---- MODULE Spec2Model ----
(***************************************************************************)
(* Round-number search of src/src/round_numbers.rs (Poseidon).             *)
(*                                                                         *)
(* calc_round_numbers(t, security_margin) scans the candidate grid         *)
(* rf_test in (2..=1000).step_by(2), rp_test in 4..200, keeps the cheapest *)
(* candidate accepted by round_numbers_are_secure and returns it.          *)
(*                                                                         *)
(* The f32 arithmetic of the source is modelled in fixed point: an f32     *)
(* value x is the integer x * 2^18 (2^-18 is the spacing of f32 values in  *)
(* [32, 64), where 0.43*m + log2(t), 0.21*n and 0.14*n - 1 lie), and the   *)
(* one product whose f32 rounding decides a ceiling, 1.075 * rp_test, is   *)
(* rounded to 24 significant bits, ties to even, as the hardware does.     *)
(***************************************************************************)
EXTENDS Integers, Sequences, FiniteSets

(***************************************************************************)
(* Bounds of the model.                                                    *)
(***************************************************************************)
\* Widths t = 1 .. MaxT are the inputs of the model.
MaxT == 3

(***************************************************************************)
(* Constants of the program.                                               *)
(***************************************************************************)
PRIME_BITLEN == 256
M == 128
\* usize::MAX, the initial n_sboxes_min and the value of `inf as usize`.
\* Represented by 2^31 - 1: every cost the search computes is below 2^20,
\* so only "larger than every cost" is used of it.
USIZE_MAX == 2147483647
\* (2..=1000).step_by(2)
RF_LO == 2
RF_HI == 1000
RF_STEP == 2
\* 4..200
RP_LO == 4
RP_HI == 200

\* One unit of the fixed-point representation: 2^18 units make 1.0.
Q == 262144
\* Fraction bits of the binary logarithm computed by log2.
LOG_BITS == 14
LOG_ONE == 16384

\* The f32 nearest to 0.43 is 14428406 * 2^-25, so 0.43 * m with m = 2^7
\* is exactly 14428406 * 2^-18 (55.04000091...).
F32_0_43_M == 14428406
\* The f32 nearest to 0.21 is 14092861 * 2^-26, so 0.21 * n with n = 2^8
\* is exactly 14092861 * 2^-18 (53.75999832...).
F32_0_21_N == 14092861
\* The f32 nearest to 0.14 is 9395241 * 2^-26, so 0.14 * n with n = 2^8
\* is exactly 9395241 * 2^-18 (35.84000015...).
F32_0_14_N == 9395241
\* The f32 nearest to 1.075 is 9017754 * 2^-23 (1.07500004768...).
F32_1_075 == 9017754
\* 2^23, the denominator of F32_1_075.
TWO_23 == 8388608

Widths == 1..MaxT

(***************************************************************************)
(* f32 helpers.                                                            *)
(***************************************************************************)
RECURSIVE Pow2(_)
Pow2(k) == IF k = 0 THEN 1 ELSE 2 * Pow2(k - 1)

RECURSIVE FloorLog2(_)
FloorLog2(x) == IF x < 2 THEN 0 ELSE 1 + FloorLog2(x \div 2)

\* f32::ceil followed by `as usize` (a saturating cast: negative values
\* and -0.0 give 0), on a finite value x given in units of 2^-18.
ceil_as_usize(x) == IF x <= 0 THEN 0 ELSE (x + Q - 1) \div Q

\* The fraction bits of log2(y / 2^14) for 2^14 <= y < 2^15, by repeated
\* squaring: squaring doubles the logarithm, and the integer part of the
\* doubled logarithm is the next bit.
RECURSIVE log2_frac(_, _)
log2_frac(y, bits) ==
    IF bits = 0 THEN 0
    ELSE LET y2 == (y * y) \div LOG_ONE
         IN  IF y2 >= 2 * LOG_ONE
             THEN Pow2(bits - 1) + log2_frac(y2 \div 2, bits - 1)
             ELSE log2_frac(y2, bits - 1)

\* f32::log2 of an integer x >= 1, in units of 2^-18: exact for a power
\* of two, and otherwise within 2^-12 below the exact logarithm, which
\* gives the ceiling of 0.43 * m + log2(t) - rp that f32 gives for every
\* width below 249 (log2(249) = 7.96, next to the fraction 0.96 at which
\* the ceiling steps).
log2(x) ==
    LET k == FloorLog2(x)
    IN  k * Q + (Q \div LOG_ONE) * log2_frac((x * LOG_ONE) \div Pow2(k), LOG_BITS)

\* An f32 product p = num / 2^23 > 0 rounded to 24 significant bits, ties
\* to even; the result is again a numerator over 2^23.
round_f32(num) ==
    LET ulp == Pow2(FloorLog2(num \div TWO_23))
        lo  == (num \div ulp) * ulp
        rem == num - lo
    IN  IF 2 * rem < ulp THEN lo
        ELSE IF 2 * rem > ulp THEN lo + ulp
        ELSE IF ((num \div ulp) % 2) = 0 THEN lo ELSE lo + ulp

\* Mutant of margin_rp: the product is cast without `.ceil()`.
margin_rp_trunc(rp_t) ==
    IF rp_t = 0 THEN 0 ELSE round_f32(F32_1_075 * rp_t) \div TWO_23

\* (1.075 * rp_test as f32).ceil() as usize
margin_rp(rp_t) ==
    IF rp_t = 0 THEN 0
    ELSE (round_f32(F32_1_075 * rp_t) + TWO_23 - 1) \div TWO_23

Max2(a, b) == IF a >= b THEN a ELSE b

(***************************************************************************)
(* n_sboxes and round_numbers_are_secure.                                  *)
(***************************************************************************)
\* Mutant of n_sboxes: the two round counts are swapped.
n_sboxes_swapped(rf_, rp_, t_) == t_ * rp_ + rf_

n_sboxes(rf_, rp_, t_) == t_ * rf_ + rp_

rf_stat(t_) == IF M <= (PRIME_BITLEN - 3) * (t_ + 1) THEN 6 ELSE 10

\* t.log2() for the widths of the model, computed once per width.
t_log2 == [x \in Widths |-> log2(x)]

rf_interp(rp_, t_) == ceil_as_usize(F32_0_43_M + t_log2[t_] - rp_ * Q)

rf_grob_1(rp_) == ceil_as_usize(F32_0_21_N - rp_ * Q)

\* (0.14 * n - 1.0 - rp) / (t - 1.0), then ceil, then `as usize`.  With
\* t = 1 the quotient is +inf or -inf, which the cast saturates to
\* usize::MAX or 0.  The numerator is never zero (its fraction is 0.84).
rf_grob_2(rp_, t_) ==
    LET num == (F32_0_14_N - Q) - rp_ * Q
    IN  IF t_ = 1 THEN (IF num > 0 THEN USIZE_MAX ELSE 0)
        ELSE IF num <= 0 THEN 0
        ELSE (num + (t_ - 1) * Q - 1) \div ((t_ - 1) * Q)

\* Mutant of rf_max: the statistical bound is left out of the array.
rf_max_no_stat(rp_, t_) ==
    Max2(rf_interp(rp_, t_), Max2(rf_grob_1(rp_), rf_grob_2(rp_, t_)))

\* [rf_stat, rf_interp, rf_grob_1, rf_grob_2] ... .max()
rf_max(rp_, t_) ==
    Max2(Max2(rf_stat(t_), rf_interp(rp_, t_)),
         Max2(rf_grob_1(rp_), rf_grob_2(rp_, t_)))

round_numbers_are_secure(rf_, rp_, t_) == rf_ >= rf_max(rp_, t_)

(***************************************************************************)
(* calc_round_numbers as a state machine: one step per candidate of the    *)
(* nested loops.  A caller applies the function to one width, first        *)
(* without and then with the security margin, and keeps the returned pairs *)
(* in ret.                                                                 *)
(*                                                                         *)
(* rf_iter is the position of the outer iterator and rf_test the variable  *)
(* `mut rf_test` it binds: bound once per outer iteration, so that the     *)
(* `rf_test += 2` of line 27 stays in force for the rest of the inner      *)
(* loop.  rp_test is bound anew in every inner iteration: the state keeps  *)
(* the value the iterator yields, and the assignment of line 28 lives only *)
(* within the step.                                                        *)
(***************************************************************************)
VARIABLES t, security_margin, rf_iter, rf_test, rp_test, rf, rp, n_sboxes_min, pc, ret

vars == <<t, security_margin, rf_iter, rf_test, rp_test, rf, rp, n_sboxes_min, pc, ret>>

\* Number of items of (2..=1000).step_by(2).
rf_count == (RF_HI - RF_LO) \div RF_STEP + 1

\* Mutant of rf_range: the range is walked from its upper end.
rf_range_rev(i) == RF_HI - RF_STEP * i

\* The item at position i (from 0) of (2..=1000).step_by(2).
rf_range(i) == RF_LO + RF_STEP * i

\* Mutants of margin_rf: the margin is subtracted; the margin is one round.
margin_rf_minus(rf_t) == rf_t - 2

margin_rf_one(rf_t) == rf_t + 1

\* rf_test += 2
margin_rf(rf_t) == rf_t + 2

\* The candidate of line 30: the loop variables after the margin of lines
\* 26-29 has been applied to them.
cand_rf(rf_t, margin) == IF margin THEN margin_rf(rf_t) ELSE rf_t

cand_rp(rp_t, margin) == IF margin THEN margin_rp(rp_t) ELSE rp_t

\* Mutants of cost_lower: the comparison is reversed; it is not strict.
cost_lower_gt(cost, best_cost) == cost > best_cost

cost_lower_le(cost, best_cost) == cost <= best_cost

\* The condition of line 31 on the candidate's cost and full-round count.
cost_lower(cost, best_cost) == cost < best_cost

cost_tie(cost, c_rf, best_cost, best_rf) == cost = best_cost /\ c_rf < best_rf

replaces_best(cost, c_rf, best_cost, best_rf) ==
    cost_lower(cost, best_cost) \/ cost_tie(cost, c_rf, best_cost, best_rf)

\* let mut n_sboxes_min = usize::MAX;
n_sboxes_init == USIZE_MAX

\* ret[margin] before calc_round_numbers(t, margin) has returned.
NoResult == <<>>

Init ==
    /\ t \in Widths
    /\ security_margin = FALSE
    /\ rf_iter = 0
    /\ rf_test = rf_range(0)
    /\ rp_test = RP_LO
    /\ rf = 0
    /\ rp = 0
    /\ n_sboxes_min = n_sboxes_init
    /\ pc = "idle"
    /\ ret = [m \in BOOLEAN |-> NoResult]

\* Lines 18-23: entry of calc_round_numbers(t, margin).
Call(margin) ==
    /\ pc = "idle"
    /\ ret[margin] = NoResult
    /\ margin => ret[FALSE] # NoResult
    /\ security_margin' = margin
    /\ rf' = 0
    /\ rp' = 0
    /\ n_sboxes_min' = n_sboxes_init
    /\ rf_iter' = 0
    /\ rf_test' = rf_range(0)
    /\ rp_test' = RP_LO
    /\ pc' = "scan"
    /\ UNCHANGED <<t, ret>>

\* Lines 24-36: the body of the inner loop for the candidate
\* (rf_test, rp_test), then the advance of the two loops.  The margin of
\* line 27 is assigned to rf_test itself, which the next outer iteration
\* binds again.
ProcessCandidate ==
    /\ pc = "scan"
    /\ LET secure == round_numbers_are_secure(rf_test, rp_test, t)
           c_rf   == cand_rf(rf_test, security_margin)
           c_rp   == cand_rp(rp_test, security_margin)
           cost   == n_sboxes(c_rf, c_rp, t)
       IN  /\ IF secure /\ replaces_best(cost, c_rf, n_sboxes_min, rf)
              THEN /\ rf' = c_rf
                   /\ rp' = c_rp
                   /\ n_sboxes_min' = cost
              ELSE UNCHANGED <<rf, rp, n_sboxes_min>>
           /\ IF rp_test + 1 < RP_HI
              THEN /\ rp_test' = rp_test + 1
                   /\ rf_test' = IF secure THEN c_rf ELSE rf_test
                   /\ UNCHANGED <<rf_iter, pc>>
              ELSE IF rf_iter + 1 < rf_count
              THEN /\ rf_iter' = rf_iter + 1
                   /\ rf_test' = rf_range(rf_iter + 1)
                   /\ rp_test' = RP_LO
                   /\ UNCHANGED pc
              ELSE /\ pc' = "return"
                   /\ rf_test' = IF secure THEN c_rf ELSE rf_test
                   /\ UNCHANGED <<rf_iter, rp_test>>
    /\ UNCHANGED <<t, security_margin, ret>>

\* Line 40: (rf, rp) is returned to the caller.
Return ==
    /\ pc = "return"
    /\ ret' = [ret EXCEPT ![security_margin] = <<rf, rp>>]
    /\ pc' = "idle"
    /\ UNCHANGED <<t, security_margin, rf_iter, rf_test, rp_test, rf, rp, n_sboxes_min>>

Next ==
    \/ \E margin \in BOOLEAN : Call(margin)
    \/ ProcessCandidate
    \/ Return

Spec == Init /\ [][Next]_vars

(***************************************************************************)
(* Vocabulary of the properties.                                           *)
(***************************************************************************)
\* The candidate grid of lines 23-24.
GridRf == {rf_range(i) : i \in 0..(rf_count - 1)}

GridRp == RP_LO..(RP_HI - 1)

\* calc_round_numbers(t, margin) has returned, and the caller holds the pair.
Returned(margin) == pc = "idle" /\ ret[margin] # NoResult

\* ceil(1.075 * rp0) over the rationals.
CeilMargin(rp0) == (1075 * rp0 + 999) \div 1000

\* t * rf + rp, the cost of a pair.
Cost(t_, rf_, rp_) == t_ * rf_ + rp_

SomeGridCandidateSecure ==
    \E rf0 \in GridRf : \E rp0 \in GridRp : round_numbers_are_secure(rf0, rp0, t)

\* The candidate the scan is about to process, as line 30 sees it.
CurRf == cand_rf(rf_test, security_margin)

CurRp == cand_rp(rp_test, security_margin)

CurSecure == round_numbers_are_secure(rf_test, rp_test, t)

(***************************************************************************)
(* C1.  For every width t >= 2 the returned pair comes from a candidate    *)
(* that passes round_numbers_are_secure: without margin the returned pair  *)
(* itself passes; with margin some grid candidate (rf0, rp0) passes and    *)
(* the returned pair is (rf0 + 2, ceil(1.075 * rp0)).                      *)
(***************************************************************************)
C1_ReturnedPairIsSecure ==
    /\ (t >= 2 /\ Returned(FALSE)) =>
           round_numbers_are_secure(ret[FALSE][1], ret[FALSE][2], t)
    /\ (t >= 2 /\ Returned(TRUE)) =>
           \E rf0 \in GridRf : \E rp0 \in GridRp :
               /\ rf0 + 2 = ret[TRUE][1]
               /\ CeilMargin(rp0) = ret[TRUE][2]
               /\ round_numbers_are_secure(rf0, rp0, t)

C1_Witness ==
    /\ t >= 2
    /\ Returned(TRUE)
    /\ ret[TRUE] # <<0, 0>>
    /\ ret[FALSE] # <<0, 0>>

(***************************************************************************)
(* C2.  Minimality: for every width t >= 2, without margin, no pair of     *)
(* non-negative integers (rf', rp') of cost t*rf' + rp' strictly below the *)
(* cost of the returned pair passes round_numbers_are_secure.  The pairs   *)
(* ranged over are all the pairs of lower cost (rf' <= cost / t and        *)
(* rp' <= cost), odd rf' and rp' outside 4..199 included.                  *)
(***************************************************************************)
C2_NoCheaperSecurePair ==
    (t >= 2 /\ Returned(FALSE)) =>
        LET best == Cost(t, ret[FALSE][1], ret[FALSE][2])
        IN  \A rf1 \in 0..(best \div t) : \A rp1 \in 0..best :
                Cost(t, rf1, rp1) < best => ~round_numbers_are_secure(rf1, rp1, t)

C2_Witness ==
    /\ t >= 2
    /\ Returned(FALSE)
    /\ Cost(t, ret[FALSE][1], ret[FALSE][2]) > 0
    /\ round_numbers_are_secure(ret[FALSE][1] + 1, ret[FALSE][2] - 1, t)

(***************************************************************************)
(* C3.  A call with width t = 1 does not return a round pair.              *)
(***************************************************************************)
C3_WidthOneReturnsNoPair ==
    t = 1 => \A margin \in BOOLEAN : ret[margin] = NoResult

(***************************************************************************)
(* C4.  Search exhaustion: the returned pair is the sentinel (0, 0) if and *)
(* only if no candidate of the grid passes round_numbers_are_secure.       *)
(***************************************************************************)
C4_SentinelIffNoSecureCandidate ==
    \A margin \in BOOLEAN :
        Returned(margin) =>
            ((ret[margin] = <<0, 0>>) <=> ~SomeGridCandidateSecure)

C4_Witness ==
    /\ Returned(FALSE)
    /\ ~Returned(TRUE)
    /\ SomeGridCandidateSecure
    /\ ret[FALSE][1] > 0

(***************************************************************************)
(* C5.  Margin monotonicity: for every width t >= 2 the full-round count   *)
(* returned with margin is at least the one returned without.              *)
(***************************************************************************)
C5_MarginMonotone ==
    (t >= 2 /\ Returned(FALSE) /\ Returned(TRUE)) => ret[TRUE][1] >= ret[FALSE][1]

C5_Witness ==
    /\ t >= 2
    /\ Returned(FALSE)
    /\ Returned(TRUE)
    /\ ret[TRUE][1] > ret[FALSE][1]
    /\ ret[FALSE][1] > 0

(***************************************************************************)
(* C6.  R_F is always even: in every state of the search the best-so-far   *)
(* full-round count rf is even, and so is every returned R_F.              *)
(***************************************************************************)
C6_RfEven ==
    /\ rf % 2 = 0
    /\ \A margin \in BOOLEAN : ret[margin] # NoResult => ret[margin][1] % 2 = 0

C6_Witness ==
    /\ pc = "scan"
    /\ security_margin
    /\ rf > 0
    /\ ret[FALSE][1] > 0

(***************************************************************************)
(* C8.  The margin is layered on the minimal secure configuration: for     *)
(* every width t >= 2, if (rf0, rp0) is returned without margin then       *)
(* (rf0 + 2, ceil(1.075 * rp0)) is returned with margin.                   *)
(***************************************************************************)
C8_MarginOnTopOfPlainResult ==
    (t >= 2 /\ Returned(FALSE) /\ Returned(TRUE)) =>
        ret[TRUE] = <<ret[FALSE][1] + 2, CeilMargin(ret[FALSE][2])>>

C8_Witness ==
    /\ t >= 2
    /\ Returned(FALSE)
    /\ Returned(TRUE)
    /\ ret[FALSE][2] > 0
    /\ ret[TRUE][2] > ret[FALSE][2]

(***************************************************************************)
(* C9.  With PRIME_BITLEN = 256 and M = 128, for every width t >= 2 some   *)
(* grid candidate is secure and the returned pair is not the sentinel:     *)
(* R_F >= 6 (>= 8 with margin) and R_P >= 4.                               *)
(***************************************************************************)
C9_NeverSentinel ==
    \A margin \in BOOLEAN :
        (PRIME_BITLEN = 256 /\ M = 128 /\ t >= 2 /\ Returned(margin)) =>
            /\ SomeGridCandidateSecure
            /\ ret[margin] # <<0, 0>>
            /\ ret[margin][1] >= (IF margin THEN 8 ELSE 6)
            /\ ret[margin][2] >= 4

C9_Witness ==
    /\ t >= 2
    /\ Returned(TRUE)
    /\ ret[TRUE][1] >= 8
    /\ ret[FALSE][1] >= 6

(***************************************************************************)
(* C10.  The equal-cost branch of the update condition never fires: no     *)
(* candidate reaches line 31 secure, with a cost equal to n_sboxes_min and *)
(* a full-round count below the stored rf; the stored rf is never larger   *)
(* than the (margin-adjusted) rf_test of the candidate being processed.    *)
(***************************************************************************)
C10_TieBranchNeverFires ==
    pc = "scan" =>
        /\ rf <= CurRf
        /\ ~(/\ CurSecure
             /\ cost_tie(n_sboxes(CurRf, CurRp, t), CurRf, n_sboxes_min, rf))

C10_Witness ==
    /\ pc = "scan"
    /\ t >= 2
    /\ CurSecure
    /\ n_sboxes_min < USIZE_MAX
    /\ rf < CurRf
    /\ n_sboxes(CurRf, CurRp, t) > n_sboxes_min

\* The equal-cost case itself arises (a secure candidate whose cost equals
\* the stored minimum), and the comparison of full-round counts rejects it.
C10_TieOnCostReached ==
    /\ pc = "scan"
    /\ CurSecure
    /\ n_sboxes(CurRf, CurRp, t) = n_sboxes_min
    /\ rf < CurRf

(***************************************************************************)
(* C7.  Accumulator invariant under the sequential scan.  The scanned      *)
(* candidates are the rows before rf_iter and, of row rf_iter, the         *)
(* candidates before rp_test, each with the value rf_test has when the     *)
(* scan reaches it.  After each candidate (rf, rp, n_sboxes_min) is a      *)
(* secure scanned candidate, margin applied, whose cost is the minimum     *)
(* over the secure scanned candidates; of the scanned candidates of that   *)
(* cost it has the smallest full-round count and is the first in scan      *)
(* order; with nothing secure scanned it is (0, 0, usize::MAX).  The       *)
(* returned pair is the first minimum-cost candidate of the whole scan.    *)
(*                                                                         *)
(* The minimum over the complete rows is tabulated once per width, flag    *)
(* and number of rows, from its definition; the row in progress is ranged  *)
(* over in each state.                                                     *)
(***************************************************************************)
\* rf_max and margin_rp on the grid, tabulated.
RfMaxOf == [tt \in Widths |-> [p \in GridRp |-> rf_max(p, tt)]]

AdjRpOf == [m \in BOOLEAN |-> [p \in GridRp |-> IF m THEN margin_rp(p) ELSE p]]

\* The least element of a non-empty set of integers.
SetMin(S) == CHOOSE x \in S : \A y \in S : x <= y

\* The grid candidate (rf_range(i), p) is secure.
SecureAt(tt, i, p) == rf_range(i) >= RfMaxOf[tt][p]

\* The first p of row i at which the grid candidate is secure (RP_HI if
\* there is none): up to it rf_test holds the value the iterator yielded.
FirstSecureOf ==
    [tt \in Widths |-> [i \in 0..(rf_count - 1) |->
        LET S == {p \in GridRp : SecureAt(tt, i, p)}
        IN  IF S = {} THEN RP_HI ELSE SetMin(S)]]

\* The value of rf_test when the scan reaches candidate p of row i: with
\* margin, two more for every candidate of the row from the first secure
\* one on.
ScanRf(tt, m, i, p) ==
    LET p0 == FirstSecureOf[tt][i]
    IN  rf_range(i) + (IF m /\ p > p0 THEN 2 * (p - p0) ELSE 0)

\* The scanned candidate p of row i is secure; its pair and cost after the
\* margin.
ScanSecure(tt, m, i, p) == ScanRf(tt, m, i, p) >= RfMaxOf[tt][p]

AdjRf(tt, m, i, p) == cand_rf(ScanRf(tt, m, i, p), m)

AdjRp(m, p) == AdjRpOf[m][p]

AdjCost(tt, m, i, p) == Cost(tt, AdjRf(tt, m, i, p), AdjRp(m, p))

NotFound == [found |-> FALSE, rf |-> 0, rp |-> 0, cost |-> USIZE_MAX, i |-> 0, p |-> 0]

\* The first minimum-cost candidate among the secure scanned candidates
\* RP_LO .. n-1 of row i.
RowFirstMin(tt, m, i, n) ==
    LET S == {p \in RP_LO..(n - 1) : ScanSecure(tt, m, i, p)}
        c == [p \in S |-> AdjCost(tt, m, i, p)]
    IN  IF S = {} THEN NotFound
        ELSE LET p0 == CHOOSE p \in S : \A q \in S :
                           c[p] < c[q] \/ (c[p] = c[q] /\ p <= q)
             IN  [found |-> TRUE, rf |-> AdjRf(tt, m, i, p0), rp |-> AdjRp(m, p0),
                  cost |-> c[p0], i |-> i, p |-> p0]

\* The same for the complete row i.
RowBest(tt, m, i) == RowFirstMin(tt, m, i, RP_HI)

RowBestOf ==
    [tt \in Widths |-> [m \in BOOLEAN |-> [i \in 0..(rf_count - 1) |-> RowBest(tt, m, i)]]]

\* The minimum cost of the secure candidates of rows 0 .. n-1 (usize::MAX
\* if there is none).
PrefixMinCost(tt, m, n) ==
    LET rows == RowBestOf[tt][m]
    IN  IF n = 0 THEN USIZE_MAX ELSE SetMin({rows[i].cost : i \in 0..(n - 1)})

PrefixMinCostOf ==
    [tt \in Widths |-> [m \in BOOLEAN |-> [n \in 0..rf_count |-> PrefixMinCost(tt, m, n)]]]

\* The rows among 0 .. n-1 that have a secure candidate of that minimum cost.
PrefixMinRows(tt, m, n) ==
    LET rows == RowBestOf[tt][m]
        c    == PrefixMinCostOf[tt][m][n]
    IN  {i \in 0..(n - 1) : rows[i].cost = c /\ rows[i].found}

\* The first minimum-cost secure candidate of rows 0 .. n-1, and with it,
\* in field least_rf, the smallest full-round count of the secure
\* candidates of minimum cost of these rows.
PrefixFirst(tt, m, n) ==
    LET rows == RowBestOf[tt][m]
        R    == PrefixMinRows(tt, m, n)
    IN  IF R = {} THEN [best |-> NotFound, least_rf |-> 0]
        ELSE [best |-> rows[SetMin(R)], least_rf |-> SetMin({rows[i].rf : i \in R})]

PrefixFirstOf ==
    [tt \in Widths |-> [m \in BOOLEAN |-> [n \in 0..rf_count |-> PrefixFirst(tt, m, n)]]]

\* Complete rows, and the scanned part RP_LO .. ScannedTo - 1 of the next row.
ScannedRows == IF pc = "scan" THEN rf_iter ELSE rf_count

ScannedTo == IF pc = "scan" THEN rp_test ELSE RP_LO

\* RowFirstMin(tt, m, i, n) for the row in progress.  When the first
\* minimum-cost candidate of the complete row is among the scanned ones, it
\* is the first minimum-cost candidate of the scanned ones as well.
RowPrefixBest(tt, m, i, n) ==
    LET b == RowBestOf[tt][m][i]
    IN  IF b.found /\ b.p < n THEN b ELSE RowFirstMin(tt, m, i, n)

C7_AccumulatorInvariant ==
    /\ pc \in {"scan", "return"} =>
        LET m     == security_margin
            i     == rf_iter
            done  == PrefixFirstOf[t][m][ScannedRows]
            cur   == RowPrefixBest(t, m, i, ScannedTo)
            \* the complete rows come first in scan order
            first == IF cur.found /\ cur.cost < done.best.cost THEN cur ELSE done.best
        IN  \* the scan is at the candidate the tables place there
            /\ pc = "scan" => rf_test = ScanRf(t, m, i, rp_test)
            \* the accumulator is the first secure scanned candidate of
            \* minimum cost
            /\ <<rf, rp, n_sboxes_min>> = <<first.rf, first.rp, first.cost>>
            \* no scanned candidate of that cost has fewer full rounds
            /\ (done.best.found /\ done.best.cost = n_sboxes_min) => done.least_rf >= rf
            /\ (cur.found /\ cur.cost = n_sboxes_min) =>
                   \A p \in RP_LO..(ScannedTo - 1) :
                       (ScanSecure(t, m, i, p) /\ AdjCost(t, m, i, p) = n_sboxes_min)
                           => AdjRf(t, m, i, p) >= rf
    /\ \A m \in BOOLEAN :
           ret[m] # NoResult =>
               LET all == PrefixFirstOf[t][m][rf_count].best
               IN  ret[m] = IF all.found THEN <<all.rf, all.rp>> ELSE <<0, 0>>

\* With margin, the accumulator holds the first minimum-cost candidate of
\* the complete rows while the row in progress, in which rf_test has moved
\* on from the value the iterator yielded, has secure scanned candidates of
\* higher cost.
C7_Witness ==
    /\ pc = "scan"
    /\ security_margin
    /\ rf_test > rf_range(rf_iter)
    /\ LET done == PrefixFirstOf[t][security_margin][rf_iter].best
           cur  == RowPrefixBest(t, security_margin, rf_iter, rp_test)
       IN  /\ done.found
           /\ cur.found
           /\ cur.cost > n_sboxes_min
           /\ <<rf, rp, n_sboxes_min>> = <<done.rf, done.rp, done.cost>>

====
